---- MODULE Spec2Model ----
(***************************************************************************)
(* A model of the slot map of iceoryx2-bb/container/src/slotmap.rs.        *)
(*                                                                         *)
(* The container (MetaSlotMap) is four capacity-bounded structures: the    *)
(* key-indirection vector idx_to_data, the queue of free keys              *)
(* idx_to_data_next_free_index, the value vector data and the queue of     *)
(* free value slots data_next_free_index.  Every public method of SlotMap, *)
(* RelocatableSlotMap and FixedSizeSlotMap forwards to one *_impl method   *)
(* of MetaSlotMap; each *_impl method is an operator from the container    *)
(* value to the container value after the call and the call's outcome, and *)
(* each public method is one action.                                       *)
(***************************************************************************)
EXTENDS Integers, Sequences, FiniteSets

\* Containers are constructed with the capacities 1..MaxCapacity.
MaxCapacity == 2

\* Stored values are 1..MaxValue.
MaxValue == 2

\* usize::MAX, the sentinel of an unused indirection entry (narrowed to the
\* integers of the model checker; no index of the model comes near it).
INVALID_KEY == 2147483647

Values == 1..MaxValue

(***************************************************************************)
(* Option<T>: None is the empty sequence, Some(x) the one-element sequence.*)
(***************************************************************************)
None == <<>>

Some(x) == <<x>>

Unwrap(o) == o[1]

(***************************************************************************)
(* The outcome of a call: what it returned, or that it panicked.           *)
(***************************************************************************)
RetNone == [tag |-> "None", val |-> 0]

RetSome(x) == [tag |-> "Some", val |-> x]

RetBool(b) == [tag |-> IF b THEN "true" ELSE "false", val |-> 0]

RetPanic == [tag |-> "panic", val |-> 0]

RetUnit == [tag |-> "unit", val |-> 0]

RetOption(o) == IF o = None THEN RetNone ELSE RetSome(Unwrap(o))

(***************************************************************************)
(* MetaVec: a capacity-bounded sequence.  Indexing is that of a slice of   *)
(* the len() elements pushed so far: an index at or above len() panics.    *)
(***************************************************************************)
VecNew(cap) == [elems |-> <<>>, capacity |-> cap]

VecLen(v) == Len(v.elems)

VecCapacity(v) == v.capacity

VecPush(v, x) ==
    IF Len(v.elems) = v.capacity THEN v
    ELSE [v EXCEPT !.elems = Append(@, x)]

VecInBounds(v, i) == i >= 0 /\ i < Len(v.elems)

VecAt(v, i) == v.elems[i + 1]

VecSet(v, i, x) == [v EXCEPT !.elems[i + 1] = x]

(***************************************************************************)
(* MetaQueue: a capacity-bounded FIFO queue.  A push onto a full queue is  *)
(* refused and leaves it as it was; a pop takes the oldest element.        *)
(***************************************************************************)
QueueNew(cap) == [elems |-> <<>>, capacity |-> cap]

QueueLen(q) == Len(q.elems)

QueuePush(q, x) ==
    IF Len(q.elems) = q.capacity THEN q
    ELSE [q EXCEPT !.elems = Append(@, x)]

QueuePop(q) ==
    IF q.elems = <<>> THEN [queue |-> q, value |-> None]
    ELSE [queue |-> [q EXCEPT !.elems = Tail(@)], value |-> Some(Head(q.elems))]

(***************************************************************************)
(* Memory.  An allocator hands out successive byte ranges of an arena and  *)
(* refuses a request that does not fit; BumpAllocator::new(start) has no   *)
(* end.  It keeps the requests made of it, in order.                       *)
(***************************************************************************)
ByteRange(start, size) == [start |-> start, size |-> size]

\* The pointer of a relocatable structure that has no storage yet.
NullRange == ByteRange(-1, 0)

RangeEnd(r) == r.start + r.size

ArenaAllocator(start, size) ==
    [start |-> start, size |-> size, bounded |-> TRUE,
     position |-> start, requests |-> <<>>]

BumpAllocatorNew(start) ==
    [start |-> start, size |-> 0, bounded |-> FALSE,
     position |-> start, requests |-> <<>>]

\* The allocator of a container that is given none.
NoAllocator == ArenaAllocator(0, 0)

Allocate(a, bytes) ==
    IF a.bounded /\ a.position + bytes > a.start + a.size
    THEN [allocator |-> [a EXCEPT !.requests =
                             Append(@, [bytes |-> bytes, granted |-> FALSE])],
          ok |-> FALSE,
          range |-> NullRange]
    ELSE [allocator |-> [a EXCEPT !.position = @ + bytes,
                                  !.requests =
                             Append(@, [bytes |-> bytes, granted |-> TRUE])],
          ok |-> TRUE,
          range |-> ByteRange(a.position, bytes)]

\* size_of::<usize>() and size_of::<Option<T>>() in bytes.
SizeOfIndex == 8

SizeOfSlot == 16

(***************************************************************************)
(* RelocatableVec and RelocatableQueue: new_uninit records the capacity,   *)
(* init asks the allocator for the bytes of capacity elements.             *)
(***************************************************************************)
RelocatableVecNewUninit(cap) ==
    [elems |-> <<>>, capacity |-> cap, data_ptr |-> NullRange]

RelocatableQueueNewUninit(cap) ==
    [elems |-> <<>>, capacity |-> cap, data_ptr |-> NullRange]

VecMemorySize(cap, element) == cap * element

QueueMemorySize(cap, element) == cap * element

VecInit(v, element, a) ==
    LET r == Allocate(a, VecMemorySize(v.capacity, element)) IN
    [self |-> IF r.ok THEN [v EXCEPT !.data_ptr = r.range] ELSE v,
     allocator |-> r.allocator,
     ok |-> r.ok]

QueueInit(q, element, a) ==
    LET r == Allocate(a, QueueMemorySize(q.capacity, element)) IN
    [self |-> IF r.ok THEN [q EXCEPT !.data_ptr = r.range] ELSE q,
     allocator |-> r.allocator,
     ok |-> r.ok]

(***************************************************************************)
(* The state: the four fields of MetaSlotMap, the last method called on    *)
(* the container with its arguments (call) and that call's outcome (ret),  *)
(* the allocator the container was given, the byte range that belongs to   *)
(* the container for its four structures (storage), a heap SlotMap that is *)
(* given the same calls (twin), the iterators over the container (iters),  *)
(* the callers of unserialized calls (callers) and a Path (path).          *)
(***************************************************************************)
VARIABLES idx_to_data, idx_to_data_next_free_index, data, data_next_free_index,
          call, ret, allocator, storage, twin, iters, callers, path

vars == <<idx_to_data, idx_to_data_next_free_index, data, data_next_free_index,
          call, ret, allocator, storage, twin, iters, callers, path>>

\* What a specification has no part in stays as it starts: the iterators
\* over the container, the callers that are inside a call, and the Path.
aside == <<iters, callers, path>>

NoIters == <<>>

NoCallers == <<>>

NoPath == <<>>

Aside ==
    /\ iters = NoIters
    /\ callers = NoCallers
    /\ path = NoPath

\* The container as one value.
Self ==
    [idx_to_data |-> idx_to_data,
     idx_to_data_next_free_index |-> idx_to_data_next_free_index,
     data |-> data,
     data_next_free_index |-> data_next_free_index]

\* A call: the method, its key (-1: it takes none) and its value (0: none).
Call(op, key, value) == [op |-> op, key |-> key, value |-> value]

\* What a call leaves behind: the container after it and its outcome.
Res(m, r) == [self |-> m, ret |-> r]

\* The twin of a container that has none.
NoTwin == Res(<<>>, [tag |-> "unit", val |-> 0])

(***************************************************************************)
(* MetaSlotMap, the engine.                                                *)
(***************************************************************************)
capacity_impl(m) == VecCapacity(m.idx_to_data)

\* len_impl counting the bound value slots instead of the handed-out keys.
len_impl_FromFreeSlots(m) == capacity_impl(m) - QueueLen(m.data_next_free_index)

\* len_impl counting the bound entries of the indirection vector.
len_impl_CountsBoundEntries(m) ==
    Cardinality({n \in 1..VecLen(m.idx_to_data) : m.idx_to_data.elems[n] # INVALID_KEY})

len_impl(m) == capacity_impl(m) - QueueLen(m.idx_to_data_next_free_index)

is_empty_impl(m) == len_impl(m) = 0

is_full_impl(m) == len_impl(m) = capacity_impl(m)

\* initialize_data_structures filling the free-key queue from the highest key.
InitializeStep_DescendingKeys(m, n) ==
    [idx_to_data |-> VecPush(m.idx_to_data, INVALID_KEY),
     data |-> VecPush(m.data, None),
     idx_to_data_next_free_index |->
         QueuePush(m.idx_to_data_next_free_index, capacity_impl(m) - 1 - n),
     data_next_free_index |-> QueuePush(m.data_next_free_index, n)]

\* One round of the loop of initialize_data_structures.
InitializeStep(m, n) ==
    [idx_to_data |-> VecPush(m.idx_to_data, INVALID_KEY),
     data |-> VecPush(m.data, None),
     idx_to_data_next_free_index |-> QueuePush(m.idx_to_data_next_free_index, n),
     data_next_free_index |-> QueuePush(m.data_next_free_index, n)]

RECURSIVE InitializeLoop(_, _, _)
InitializeLoop(m, n, end) ==
    IF n >= end THEN m ELSE InitializeLoop(InitializeStep(m, n), n + 1, end)

\* initialize_data_structures running its loop from 1.
initialize_data_structures_OneShort(m) == InitializeLoop(m, 1, capacity_impl(m))

initialize_data_structures(m) == InitializeLoop(m, 0, capacity_impl(m))

\* SlotMap::new
new(capacity) ==
    initialize_data_structures(
        [idx_to_data |-> VecNew(capacity),
         idx_to_data_next_free_index |-> QueueNew(capacity),
         data |-> VecNew(capacity),
         data_next_free_index |-> QueueNew(capacity)])

(***************************************************************************)
(* RelocatableContainer for MetaSlotMap: new_uninit, init, memory_size.    *)
(***************************************************************************)
RetOk == [tag |-> "Ok", val |-> 0]

\* Err(AllocationError), reported by fail! with the message that names the
\* n-th field of MetaSlotMap.
RetErr(n) == [tag |-> "Err", val |-> n]

\* The fields of MetaSlotMap in the order of their declaration.
Fields ==
    <<"idx_to_data", "idx_to_data_next_free_index", "data", "data_next_free_index">>

FieldIndex(field) == CHOOSE n \in 1..Len(Fields) : Fields[n] = field

ElementSize(field) == IF field = "data" THEN SizeOfSlot ELSE SizeOfIndex

FieldMemorySize(field, capacity) ==
    IF field \in {"idx_to_data", "data"}
    THEN VecMemorySize(capacity, ElementSize(field))
    ELSE QueueMemorySize(capacity, ElementSize(field))

FieldInit(m, field, a) ==
    IF field \in {"idx_to_data", "data"}
    THEN VecInit(m[field], ElementSize(field), a)
    ELSE QueueInit(m[field], ElementSize(field), a)

new_uninit(capacity) ==
    [idx_to_data |-> RelocatableVecNewUninit(capacity),
     idx_to_data_next_free_index |-> RelocatableQueueNewUninit(capacity),
     data |-> RelocatableVecNewUninit(capacity),
     data_next_free_index |-> RelocatableQueueNewUninit(capacity)]

\* The statements of init from the n-th on: one fail! per field of order,
\* then the pre-fill.
RECURSIVE InitFrom(_, _, _, _)
InitFrom(m, a, order, n) ==
    IF n > Len(order)
    THEN [self |-> initialize_data_structures(m), allocator |-> a, ret |-> RetOk]
    ELSE LET r == FieldInit(m, order[n], a) IN
         IF ~r.ok
         THEN [self |-> m, allocator |-> r.allocator,
               ret |-> RetErr(FieldIndex(order[n]))]
         ELSE InitFrom([m EXCEPT ![order[n]] = r.self], r.allocator, order, n + 1)

\* init placing the value vector before the free-key queue.
init_ValueVectorSecond(m, a) ==
    InitFrom(m, a,
             <<"idx_to_data", "data", "idx_to_data_next_free_index",
               "data_next_free_index">>, 1)

init(m, a) == InitFrom(m, a, Fields, 1)

\* const_memory_size leaving out the free-data queue.
const_memory_size_ThreeStructures(capacity) ==
    VecMemorySize(capacity, SizeOfIndex)
    + QueueMemorySize(capacity, SizeOfIndex)
    + VecMemorySize(capacity, SizeOfSlot)

const_memory_size(capacity) ==
    VecMemorySize(capacity, SizeOfIndex)
    + QueueMemorySize(capacity, SizeOfIndex)
    + VecMemorySize(capacity, SizeOfSlot)
    + QueueMemorySize(capacity, SizeOfIndex)

memory_size(capacity) == const_memory_size(capacity)

(***************************************************************************)
(* FixedSizeSlotMap: the relocatable container with its storage embedded   *)
(* as four arrays behind it.  Addresses count from the first array.        *)
(***************************************************************************)
\* The bytes of the embedded array of a field.
EmbeddedSize(field, capacity) == capacity * ElementSize(field)

\* The address of the embedded array of the n-th field (repr(C): the arrays
\* follow one another in declaration order).
RECURSIVE EmbeddedOffsetOf(_, _)
EmbeddedOffsetOf(n, capacity) ==
    IF n = 1 THEN 0
    ELSE EmbeddedOffsetOf(n - 1, capacity) + EmbeddedSize(Fields[n - 1], capacity)

EmbeddedOffset(field, capacity) == EmbeddedOffsetOf(FieldIndex(field), capacity)

\* The four embedded arrays as one byte range.
EmbeddedStorage(capacity) ==
    ByteRange(0, EmbeddedOffsetOf(Len(Fields), capacity)
                 + EmbeddedSize(Fields[Len(Fields)], capacity))

\* A constructor of FixedSizeSlotMap: new_uninit, a bump allocator at the
\* embedded array of the field seed, init, expect.
FixedSizeConstruct(capacity, seed) ==
    LET r == init(new_uninit(capacity),
                  BumpAllocatorNew(EmbeddedOffset(seed, capacity)))
    IN  [self |-> r.self,
         allocator |-> r.allocator,
         storage |-> EmbeddedStorage(capacity),
         ret |-> IF r.ret = RetOk THEN RetUnit ELSE RetPanic]

placement_default(capacity) == FixedSizeConstruct(capacity, "data")

default(capacity) == FixedSizeConstruct(capacity, "idx_to_data")

\* RelocatableSlotMap built in an arena of exactly memory_size bytes.
RelocatableConstruct(capacity) ==
    LET r == init(new_uninit(capacity),
                  ArenaAllocator(0, memory_size(capacity)))
    IN  [self |-> r.self,
         allocator |-> r.allocator,
         storage |-> ByteRange(0, memory_size(capacity)),
         ret |-> r.ret]

\* SlotMap::new as a constructor next to the others.
HeapConstruct(capacity) ==
    [self |-> new(capacity),
     allocator |-> NoAllocator,
     storage |-> NullRange,
     ret |-> RetUnit]

Construct(constructor, capacity) ==
    CASE constructor = "new" -> HeapConstruct(capacity)
      [] constructor = "init" -> RelocatableConstruct(capacity)
      [] constructor = "default" -> default(capacity)
      [] constructor = "placement_default" -> placement_default(capacity)

contains_impl(m, key) ==
    IF ~VecInBounds(m.idx_to_data, key) THEN Res(m, RetPanic)
    ELSE Res(m, RetBool(VecAt(m.idx_to_data, key) # INVALID_KEY))

get_impl(m, key) ==
    IF ~VecInBounds(m.idx_to_data, key) THEN Res(m, RetPanic)
    ELSE LET n == VecAt(m.idx_to_data, key) IN
         IF n = INVALID_KEY THEN Res(m, RetNone)
         ELSE IF ~VecInBounds(m.data, n) THEN Res(m, RetPanic)
         ELSE IF VecAt(m.data, n) = None THEN Res(m, RetPanic)
         ELSE Res(m, RetSome(Unwrap(VecAt(m.data, n))))

get_mut_impl(m, key) ==
    IF ~VecInBounds(m.idx_to_data, key) THEN Res(m, RetPanic)
    ELSE LET n == VecAt(m.idx_to_data, key) IN
         IF n = INVALID_KEY THEN Res(m, RetNone)
         ELSE IF ~VecInBounds(m.data, n) THEN Res(m, RetPanic)
         ELSE IF VecAt(m.data, n) = None THEN Res(m, RetPanic)
         ELSE Res(m, RetSome(Unwrap(VecAt(m.data, n))))

\* insert_at_impl binding a free key to a value slot without writing the
\* value into the slot.
insert_at_impl_BindsWithoutValue(m, key, value) ==
    IF key > capacity_impl(m) THEN Res(m, RetBool(FALSE))
    ELSE IF ~VecInBounds(m.idx_to_data, key) THEN Res(m, RetPanic)
    ELSE LET data_idx == VecAt(m.idx_to_data, key) IN
         IF data_idx # INVALID_KEY
         THEN IF ~VecInBounds(m.data, data_idx) THEN Res(m, RetPanic)
              ELSE Res([m EXCEPT !.data = VecSet(@, data_idx, Some(value))],
                       RetBool(TRUE))
         ELSE LET p == QueuePop(m.data_next_free_index) IN
              IF p.value = None THEN Res(m, RetPanic)
              ELSE Res([m EXCEPT !.data_next_free_index = p.queue,
                                 !.idx_to_data = VecSet(@, key, Unwrap(p.value))],
                       RetBool(TRUE))

\* insert_at_impl keeping the old value of a key that is already bound.
insert_at_impl_KeepsOldValue(m, key, value) ==
    IF key > capacity_impl(m) THEN Res(m, RetBool(FALSE))
    ELSE IF ~VecInBounds(m.idx_to_data, key) THEN Res(m, RetPanic)
    ELSE LET data_idx == VecAt(m.idx_to_data, key) IN
         IF data_idx # INVALID_KEY THEN Res(m, RetBool(TRUE))
         ELSE LET p == QueuePop(m.data_next_free_index) IN
              IF p.value = None THEN Res(m, RetPanic)
              ELSE LET n == Unwrap(p.value) IN
                   Res([m EXCEPT !.data_next_free_index = p.queue,
                                 !.idx_to_data = VecSet(@, key, n),
                                 !.data = VecSet(@, n, Some(value))],
                       RetBool(TRUE))

\* insert_at_impl taking a fresh value slot also for a key that is bound.
insert_at_impl_AlwaysTakesSlot(m, key, value) ==
    IF key > capacity_impl(m) THEN Res(m, RetBool(FALSE))
    ELSE IF ~VecInBounds(m.idx_to_data, key) THEN Res(m, RetPanic)
    ELSE LET p == QueuePop(m.data_next_free_index) IN
         IF p.value = None THEN Res(m, RetPanic)
         ELSE LET n == Unwrap(p.value) IN
              Res([m EXCEPT !.data_next_free_index = p.queue,
                            !.idx_to_data = VecSet(@, key, n),
                            !.data = VecSet(@, n, Some(value))],
                  RetBool(TRUE))

insert_at_impl(m, key, value) ==
    IF key > capacity_impl(m) THEN Res(m, RetBool(FALSE))
    ELSE IF ~VecInBounds(m.idx_to_data, key) THEN Res(m, RetPanic)
    ELSE LET data_idx == VecAt(m.idx_to_data, key) IN
         IF data_idx # INVALID_KEY
         THEN IF ~VecInBounds(m.data, data_idx) THEN Res(m, RetPanic)
              ELSE Res([m EXCEPT !.data = VecSet(@, data_idx, Some(value))],
                       RetBool(TRUE))
         ELSE LET p == QueuePop(m.data_next_free_index) IN
              IF p.value = None THEN Res(m, RetPanic)
              ELSE LET n == Unwrap(p.value)
                       popped == [m EXCEPT !.data_next_free_index = p.queue]
                       bound == [popped EXCEPT !.idx_to_data = VecSet(@, key, n)]
                   IN  IF ~VecInBounds(m.data, n) THEN Res(bound, RetPanic)
                       ELSE Res([bound EXCEPT !.data = VecSet(@, n, Some(value))],
                                RetBool(TRUE))

insert_impl(m, value) ==
    LET p == QueuePop(m.idx_to_data_next_free_index) IN
    IF p.value = None THEN Res(m, RetNone)
    ELSE LET key == Unwrap(p.value)
             r == insert_at_impl([m EXCEPT !.idx_to_data_next_free_index = p.queue],
                                 key, value)
         IN  IF r.ret = RetPanic THEN r ELSE Res(r.self, RetSome(key))

\* remove_impl with the freed value slot not handed back to the free-data
\* queue.
remove_impl_LeaksSlot(m, key) ==
    IF key > VecLen(m.idx_to_data) THEN Res(m, RetBool(FALSE))
    ELSE IF ~VecInBounds(m.idx_to_data, key) THEN Res(m, RetPanic)
    ELSE LET data_idx == VecAt(m.idx_to_data, key) IN
         IF data_idx # INVALID_KEY
         THEN Res([m EXCEPT
                     !.data = VecSet(@, data_idx, None),
                     !.idx_to_data_next_free_index = QueuePush(@, key),
                     !.idx_to_data = VecSet(@, key, INVALID_KEY)],
                  RetBool(TRUE))
         ELSE Res(m, RetBool(FALSE))

\* remove_impl clearing the value slot of the key's own index instead of the
\* slot the key references.
remove_impl_ClearsSlotOfKey(m, key) ==
    IF key > VecLen(m.idx_to_data) THEN Res(m, RetBool(FALSE))
    ELSE IF ~VecInBounds(m.idx_to_data, key) THEN Res(m, RetPanic)
    ELSE LET data_idx == VecAt(m.idx_to_data, key) IN
         IF data_idx # INVALID_KEY
         THEN Res([m EXCEPT
                     !.data = VecSet(@, key, None),
                     !.data_next_free_index = QueuePush(@, data_idx),
                     !.idx_to_data_next_free_index = QueuePush(@, key),
                     !.idx_to_data = VecSet(@, key, INVALID_KEY)],
                  RetBool(TRUE))
         ELSE Res(m, RetBool(FALSE))

\* remove_impl leaving the indirection entry of the key as it was.
remove_impl_KeepsEntry(m, key) ==
    IF key > VecLen(m.idx_to_data) THEN Res(m, RetBool(FALSE))
    ELSE IF ~VecInBounds(m.idx_to_data, key) THEN Res(m, RetPanic)
    ELSE LET data_idx == VecAt(m.idx_to_data, key) IN
         IF data_idx # INVALID_KEY
         THEN Res([m EXCEPT
                     !.data = VecSet(@, data_idx, None),
                     !.data_next_free_index = QueuePush(@, data_idx),
                     !.idx_to_data_next_free_index = QueuePush(@, key)],
                  RetBool(TRUE))
         ELSE Res(m, RetBool(FALSE))

\* remove_impl popping the last value slot instead of clearing the slot of
\* the key.
remove_impl_PopsValue(m, key) ==
    IF key > VecLen(m.idx_to_data) THEN Res(m, RetBool(FALSE))
    ELSE IF ~VecInBounds(m.idx_to_data, key) THEN Res(m, RetPanic)
    ELSE LET data_idx == VecAt(m.idx_to_data, key) IN
         IF data_idx # INVALID_KEY
         THEN Res([m EXCEPT
                     !.data.elems = SubSeq(@, 1, Len(@) - 1),
                     !.data_next_free_index = QueuePush(@, data_idx),
                     !.idx_to_data_next_free_index = QueuePush(@, key),
                     !.idx_to_data = VecSet(@, key, INVALID_KEY)],
                  RetBool(TRUE))
         ELSE Res(m, RetBool(FALSE))

\* remove_impl handing the value slot back with the value still in it.
remove_impl_KeepsValue(m, key) ==
    IF key > VecLen(m.idx_to_data) THEN Res(m, RetBool(FALSE))
    ELSE IF ~VecInBounds(m.idx_to_data, key) THEN Res(m, RetPanic)
    ELSE LET data_idx == VecAt(m.idx_to_data, key) IN
         IF data_idx # INVALID_KEY
         THEN IF ~VecInBounds(m.data, data_idx) THEN Res(m, RetPanic)
              ELSE Res([m EXCEPT
                          !.data_next_free_index = QueuePush(@, data_idx),
                          !.idx_to_data_next_free_index = QueuePush(@, key),
                          !.idx_to_data = VecSet(@, key, INVALID_KEY)],
                       RetBool(TRUE))
         ELSE Res(m, RetBool(FALSE))

remove_impl(m, key) ==
    IF key > VecLen(m.idx_to_data) THEN Res(m, RetBool(FALSE))
    ELSE IF ~VecInBounds(m.idx_to_data, key) THEN Res(m, RetPanic)
    ELSE LET data_idx == VecAt(m.idx_to_data, key) IN
         IF data_idx # INVALID_KEY
         THEN IF ~VecInBounds(m.data, data_idx) THEN Res(m, RetPanic)
              ELSE Res([m EXCEPT
                          !.data = VecSet(@, data_idx, None),
                          !.data_next_free_index = QueuePush(@, data_idx),
                          !.idx_to_data_next_free_index = QueuePush(@, key),
                          !.idx_to_data = VecSet(@, key, INVALID_KEY)],
                       RetBool(TRUE))
         ELSE Res(m, RetBool(FALSE))

(***************************************************************************)
(* Iteration.  MetaSlotMap::next scans the indirection vector from a start *)
(* key for the first bound key; Iter keeps the key to resume at.           *)
(***************************************************************************)
NextNone == [tag |-> "None", key |-> -1, value |-> 0]

NextSome(key, value) == [tag |-> "Some", key |-> key, value |-> value]

NextPanic == [tag |-> "panic", key |-> -1, value |-> 0]

RECURSIVE next(_, _)
next(m, start) ==
    IF start >= VecLen(m.idx_to_data) THEN NextNone
    ELSE LET data_idx == VecAt(m.idx_to_data, start) IN
         IF data_idx # INVALID_KEY
         THEN IF ~VecInBounds(m.data, data_idx) THEN NextPanic
              ELSE IF VecAt(m.data, data_idx) = None THEN NextPanic
              ELSE NextSome(start, Unwrap(VecAt(m.data, data_idx)))
         ELSE next(m, start + 1)

\* iter_impl starting behind the first key.
iter_impl_StartsAtOne(m) == [key |-> 1]

iter_impl(m) == [key |-> 0]

\* Iter::next advancing to the key it yielded, not past it.
IterNext_ResumesAtYieldedKey(m, it) ==
    LET r == next(m, it.key) IN
    IF r.tag = "Some" THEN [iter |-> [key |-> r.key], item |-> r]
    ELSE [iter |-> it, item |-> r]

\* Iter::next
IterNext(m, it) ==
    LET r == next(m, it.key) IN
    IF r.tag = "Some" THEN [iter |-> [key |-> r.key + 1], item |-> r]
    ELSE [iter |-> it, item |-> r]

\* A for loop over an iterator: the items yielded by at most `calls` calls
\* of Iter::next, and whether the loop ended (returned: next gave None,
\* panicked: next panicked, running: calls used up).
RECURSIVE Drain(_, _, _, _)
Drain(m, it, calls, items) ==
    IF calls = 0 THEN [items |-> items, end |-> "running"]
    ELSE LET r == IterNext(m, it) IN
         IF r.item.tag = "None" THEN [items |-> items, end |-> "returned"]
         ELSE IF r.item.tag = "panic" THEN [items |-> items, end |-> "panicked"]
         ELSE Drain(m, r.iter, calls - 1, Append(items, r.item))

\* Iterating a container with one call of Iter::next more than it has keys.
Iterate(m) == Drain(m, iter_impl(m), capacity_impl(m) + 1, <<>>)

(***************************************************************************)
(* The program: a container is constructed, then its methods are called    *)
(* one at a time.  A panic ends the run.  Spec is the container under the  *)
(* calls that change it, SpecWithLookups the container under every call.   *)
(***************************************************************************)
Running == ret # RetPanic

\* The keys a caller passes: every key of the container, the key equal to
\* the capacity and one key above it.
Keys == 0..(capacity_impl(Self) + 1)

Apply(r) ==
    /\ idx_to_data' = r.self.idx_to_data
    /\ idx_to_data_next_free_index' = r.self.idx_to_data_next_free_index
    /\ data' = r.self.data
    /\ data_next_free_index' = r.self.data_next_free_index
    /\ ret' = r.ret
    /\ UNCHANGED <<allocator, storage, twin>>
    /\ UNCHANGED aside

\* A container of every capacity from 1 to MaxCapacity, as SlotMap::new leaves
\* it.
Init ==
    \E capacity \in 1..MaxCapacity :
        LET m == new(capacity) IN
        /\ idx_to_data = m.idx_to_data
        /\ idx_to_data_next_free_index = m.idx_to_data_next_free_index
        /\ data = m.data
        /\ data_next_free_index = m.data_next_free_index
        /\ call = Call("new", -1, 0)
        /\ ret = RetUnit
        /\ allocator = NoAllocator
        /\ storage = NullRange
        /\ twin = NoTwin
        /\ Aside

Insert(value) ==
    /\ Running
    /\ Apply(insert_impl(Self, value))
    /\ call' = Call("insert", -1, value)

InsertAt(key, value) ==
    /\ Running
    /\ Apply(insert_at_impl(Self, key, value))
    /\ call' = Call("insert_at", key, value)

Remove(key) ==
    /\ Running
    /\ Apply(remove_impl(Self, key))
    /\ call' = Call("remove", key, 0)

Contains(key) ==
    /\ Running
    /\ Apply(contains_impl(Self, key))
    /\ call' = Call("contains", key, 0)

Get(key) ==
    /\ Running
    /\ Apply(get_impl(Self, key))
    /\ call' = Call("get", key, 0)

\* get_mut hands out a mutable reference to the stored value and writes
\* nothing itself.  A write of the caller through the reference leaves the
\* container as insert_at on the same, contained key does.
GetMut(key) ==
    /\ Running
    /\ Apply(get_mut_impl(Self, key))
    /\ call' = Call("get_mut", key, 0)

\* The calls that change the container.
Next ==
    \/ \E value \in Values : Insert(value)
    \/ \E key \in Keys, value \in Values : InsertAt(key, value)
    \/ \E key \in Keys : Remove(key)

Spec == Init /\ [][Next]_vars

\* The lookups.  They leave the container as it is, so the containers reached
\* with them are those of Spec; what they add is their outcomes.
Lookup ==
    \/ \E key \in Keys : Contains(key)
    \/ \E key \in Keys : Get(key)
    \/ \E key \in Keys : GetMut(key)

NextWithLookups == Next \/ Lookup

SpecWithLookups == Init /\ [][NextWithLookups]_vars

(***************************************************************************)
(* Construction.  SpecConstruction is the relocatable container from       *)
(* new_uninit through init, for every capacity and every arena of at most  *)
(* memory_size(capacity) bytes, next to the heap container of Init.        *)
(***************************************************************************)
Skeleton ==
    \E capacity \in 1..MaxCapacity :
        \E bytes \in 0..memory_size(capacity) :
            LET m == new_uninit(capacity) IN
            /\ idx_to_data = m.idx_to_data
            /\ idx_to_data_next_free_index = m.idx_to_data_next_free_index
            /\ data = m.data
            /\ data_next_free_index = m.data_next_free_index
            /\ call = Call("new_uninit", -1, 0)
            /\ ret = RetUnit
            /\ allocator = ArenaAllocator(0, bytes)
            /\ storage = ByteRange(0, bytes)
            /\ twin = NoTwin
            /\ Aside

ConstructionInit == Init \/ Skeleton

InitRelocatable ==
    /\ call.op = "new_uninit"
    /\ LET r == init(Self, allocator) IN
       /\ idx_to_data' = r.self.idx_to_data
       /\ idx_to_data_next_free_index' = r.self.idx_to_data_next_free_index
       /\ data' = r.self.data
       /\ data_next_free_index' = r.self.data_next_free_index
       /\ ret' = r.ret
       /\ allocator' = r.allocator
    /\ call' = Call("init", -1, 0)
    /\ UNCHANGED <<storage, twin>>
    /\ UNCHANGED aside

SpecConstruction == ConstructionInit /\ [][InitRelocatable]_vars

(***************************************************************************)
(* Vocabulary of the properties.                                           *)
(***************************************************************************)
\* The keys of the container: 0..capacity-1.
KeyRange(m) == 0..(capacity_impl(m) - 1)

\* key is contained: it is a key of the container and its indirection entry
\* is not the sentinel (what contains answers for a key in range).
Contained(m, key) ==
    /\ VecInBounds(m.idx_to_data, key)
    /\ VecAt(m.idx_to_data, key) # INVALID_KEY

StoredKeys(m) == {k \in KeyRange(m) : Contained(m, k)}

\* The value slots some key references.
ReferencedSlots(m) == {VecAt(m.idx_to_data, k) : k \in StoredKeys(m)}

Range(seq) == {seq[i] : i \in 1..Len(seq)}

NoDuplicates(seq) == \A i, j \in 1..Len(seq) : seq[i] = seq[j] => i = j

FreeKeys(m) == Range(m.idx_to_data_next_free_index.elems)

FreeSlots(m) == Range(m.data_next_free_index.elems)

(***************************************************************************)
(* The variants.  SpecVariants is a container built by one of the four     *)
(* constructors, with a heap SlotMap of the same capacity at its side, and *)
(* both given the same calls.  Bytes of a structure that lie outside the   *)
(* storage of the container belong to some other object, whose owner       *)
(* writes them as it likes (ForeignWrite).                                 *)
(***************************************************************************)
Constructors == {"new", "init", "default", "placement_default"}

VariantsInit ==
    \E capacity \in 1..MaxCapacity : \E constructor \in Constructors :
        LET c == Construct(constructor, capacity) IN
        /\ idx_to_data = c.self.idx_to_data
        /\ idx_to_data_next_free_index = c.self.idx_to_data_next_free_index
        /\ data = c.self.data
        /\ data_next_free_index = c.self.data_next_free_index
        /\ call = Call(constructor, -1, 0)
        /\ ret = c.ret
        /\ allocator = c.allocator
        /\ storage = c.storage
        /\ twin = Res(new(capacity), RetUnit)
        /\ Aside

BothRunning == Running /\ twin.ret # RetPanic

ApplyBoth(r, t) ==
    /\ idx_to_data' = r.self.idx_to_data
    /\ idx_to_data_next_free_index' = r.self.idx_to_data_next_free_index
    /\ data' = r.self.data
    /\ data_next_free_index' = r.self.data_next_free_index
    /\ ret' = r.ret
    /\ twin' = t
    /\ UNCHANGED <<allocator, storage>>
    /\ UNCHANGED aside

InsertBoth(value) ==
    /\ BothRunning
    /\ ApplyBoth(insert_impl(Self, value), insert_impl(twin.self, value))
    /\ call' = Call("insert", -1, value)

InsertAtBoth(key, value) ==
    /\ BothRunning
    /\ ApplyBoth(insert_at_impl(Self, key, value),
                 insert_at_impl(twin.self, key, value))
    /\ call' = Call("insert_at", key, value)

RemoveBoth(key) ==
    /\ BothRunning
    /\ ApplyBoth(remove_impl(Self, key), remove_impl(twin.self, key))
    /\ call' = Call("remove", key, 0)

\* A byte range lies in the storage of the container.
InStorage(r) == r.start >= storage.start /\ RangeEnd(r) <= RangeEnd(storage)

\* The bytes of the n-th element of a field.
ElementRange(m, field, n) ==
    ByteRange(m[field].data_ptr.start + (n - 1) * ElementSize(field),
              ElementSize(field))

\* The fields that have a pointer into memory (the heap container owns its
\* memory and has none).
PlacedFields(m) == {f \in Range(Fields) : "data_ptr" \in DOMAIN m[f]}

\* What the bytes of an element of a field can hold.
ElementValues(m, field) ==
    IF field = "data" THEN {None} \cup {Some(v) : v \in Values}
    ELSE IF field = "idx_to_data" THEN KeyRange(m) \cup {INVALID_KEY}
    ELSE KeyRange(m)

ForeignWrite ==
    /\ BothRunning
    /\ \E field \in PlacedFields(Self) :
          \E n \in 1..Len(Self[field].elems) :
             \E x \in ElementValues(Self, field) :
                /\ ~InStorage(ElementRange(Self, field, n))
                /\ x # Self[field].elems[n]
                /\ LET m == [Self EXCEPT ![field].elems[n] = x] IN
                   /\ idx_to_data' = m.idx_to_data
                   /\ idx_to_data_next_free_index' = m.idx_to_data_next_free_index
                   /\ data' = m.data
                   /\ data_next_free_index' = m.data_next_free_index
    /\ UNCHANGED <<call, ret, allocator, storage, twin>>
    /\ UNCHANGED aside

VariantsNext ==
    \/ \E value \in Values : InsertBoth(value)
    \/ \E key \in Keys, value \in Values : InsertAtBoth(key, value)
    \/ \E key \in Keys : RemoveBoth(key)
    \/ ForeignWrite

SpecVariants == VariantsInit /\ [][VariantsNext]_vars

(***************************************************************************)
(* Iterators.  SpecIteration is the heap container under the calls that    *)
(* change it and under iter(): up to two iterators are alive at a time,    *)
(* each advanced on its own; while one is alive the container is borrowed  *)
(* and no call changes it.  An iterator is the key it resumes at, what it  *)
(* has yielded and whether it has returned None.                           *)
(***************************************************************************)
IterCall ==
    /\ Running
    /\ Len(iters) < 2
    /\ iters' = Append(iters, [key |-> iter_impl(Self).key,
                               yielded |-> <<>>,
                               done |-> FALSE])
    /\ call' = Call("iter", -1, 0)
    /\ ret' = RetUnit
    /\ UNCHANGED <<idx_to_data, idx_to_data_next_free_index, data,
                   data_next_free_index, allocator, storage, twin, callers, path>>

IterNextCall(i) ==
    /\ Running
    /\ i \in 1..Len(iters)
    /\ ~iters[i].done
    /\ LET r == IterNext(Self, [key |-> iters[i].key]) IN
       /\ r.item.tag # "panic"
       /\ iters' = [iters EXCEPT ![i] =
                       IF r.item.tag = "Some"
                       THEN [key |-> r.iter.key,
                             yielded |-> Append(@.yielded, r.item),
                             done |-> FALSE]
                       ELSE [@ EXCEPT !.done = TRUE]]
    /\ UNCHANGED <<idx_to_data, idx_to_data_next_free_index, data,
                   data_next_free_index, call, ret, allocator, storage, twin,
                   callers, path>>

\* The iterators go out of scope.
IterDrop ==
    /\ iters # <<>>
    /\ iters' = <<>>
    /\ UNCHANGED <<idx_to_data, idx_to_data_next_free_index, data,
                   data_next_free_index, call, ret, allocator, storage, twin,
                   callers, path>>

IterationNext ==
    \/ iters = <<>> /\ Next
    \/ IterCall
    \/ \E i \in 1..2 : IterNextCall(i)
    \/ IterDrop

SpecIteration == Init /\ [][IterationNext]_vars

(***************************************************************************)
(* Path (path.rs): a byte string of at most MaxPathLength bytes without    *)
(* invalid characters.  SpecPath is a Path under add_path_entry with       *)
(* entries of at most MaxEntryLength bytes.                                *)
(***************************************************************************)
\* PATH_LENGTH and FILENAME_LENGTH, scaled down.
MaxPathLength == 3

MaxEntryLength == 2

\* b'/'
PATH_SEPARATOR == 47

\* The bytes paths and entries are made of: '/', 'a' and the invalid '*'.
Bytes == {PATH_SEPARATOR, 97, 42}

\* The closure invalid_characters of semantic_string! { name: Path, .. }.
invalid_characters(string) ==
    \E i \in 1..Len(string) :
        \/ string[i] = 0
        \/ string[i] \in 1..31
        \/ string[i] \in {60, 62, 34, 124, 63, 42}

\* SemanticString::push_bytes: appends the bytes when the result fits the
\* capacity and is valid content, and leaves the string alone otherwise.
push_bytes(value, bytes) ==
    IF Len(value) + Len(bytes) > MaxPathLength
    THEN [value |-> value, ret |-> "ExceedsMaximumLength"]
    ELSE IF invalid_characters(value \o bytes)
    THEN [value |-> value, ret |-> "InvalidContent"]
    ELSE [value |-> value \o bytes, ret |-> "Ok"]

\* SemanticString::push
push(value, byte) == push_bytes(value, <<byte>>)

\* add_path_entry putting a separator before every entry.
add_path_entry_AlwaysSeparates(value, entry) ==
    LET r == push(value, PATH_SEPARATOR) IN
    IF r.ret # "Ok" THEN r ELSE push_bytes(r.value, entry)

\* Path::add_path_entry: the Path after the call and what the call returns.
add_path_entry(value, entry) ==
    IF value # <<>> /\ value[Len(value)] # PATH_SEPARATOR
    THEN LET r == push(value, PATH_SEPARATOR) IN
         IF r.ret # "Ok" THEN r ELSE push_bytes(r.value, entry)
    ELSE push_bytes(value, entry)

\* The byte strings of at most n bytes.
ByteStrings(n) == UNION {[1..k -> Bytes] : k \in 0..n}

\* Path::new of every valid byte string; the container is of no interest.
PathInit ==
    /\ \E value \in ByteStrings(MaxPathLength) :
          /\ ~invalid_characters(value)
          /\ path = [value |-> value, entry |-> <<>>, ret |-> "Ok"]
    /\ idx_to_data = VecNew(0)
    /\ idx_to_data_next_free_index = QueueNew(0)
    /\ data = VecNew(0)
    /\ data_next_free_index = QueueNew(0)
    /\ call = Call("new", -1, 0)
    /\ ret = RetUnit
    /\ allocator = NoAllocator
    /\ storage = NullRange
    /\ twin = NoTwin
    /\ iters = NoIters
    /\ callers = NoCallers

AddPathEntry(entry) ==
    /\ LET r == add_path_entry(path.value, entry) IN
       path' = [value |-> r.value, entry |-> entry, ret |-> r.ret]
    /\ UNCHANGED <<idx_to_data, idx_to_data_next_free_index, data,
                   data_next_free_index, call, ret, allocator, storage, twin,
                   iters, callers>>

PathNext == \E entry \in ByteStrings(MaxEntryLength) : AddPathEntry(entry)

SpecPath == PathInit /\ [][PathNext]_vars

(***************************************************************************)
(* Several callers.  SpecConcurrent is a container shared by two callers.  *)
(* Either the callers are serialized from outside, and each call of        *)
(* insert, insert_at and remove runs as a whole; or they are not, and     *)
(* each makes one insert_at call whose statements (insert_at_impl,         *)
(* 212-227) run in any order with those of the other: the read of the      *)
(* indirection entry, the pop of a value slot, the write of the            *)
(* indirection entry and the write of the value.                           *)
(***************************************************************************)
Callers == 1..2

\* A caller that is in no call.
Outside ==
    [pc |-> "outside", key |-> -1, value |-> 0,
     data_idx |-> INVALID_KEY, n |-> INVALID_KEY]

ConcurrentInit ==
    \E capacity \in 1..MaxCapacity :
    \E synchronization \in {"serialized", "unsynchronized"} :
        LET m == new(capacity) IN
        /\ idx_to_data = m.idx_to_data
        /\ idx_to_data_next_free_index = m.idx_to_data_next_free_index
        /\ data = m.data
        /\ data_next_free_index = m.data_next_free_index
        /\ call = Call("new", -1, 0)
        /\ ret = RetUnit
        /\ allocator = NoAllocator
        /\ storage = NullRange
        /\ twin = NoTwin
        /\ iters = NoIters
        /\ path = NoPath
        /\ callers = [synchronization |-> synchronization,
                      inside |-> [c \in Callers |-> Outside]]

Serialized == callers.synchronization = "serialized"

\* A whole call of caller c.
ApplyFor(c, r) ==
    /\ idx_to_data' = r.self.idx_to_data
    /\ idx_to_data_next_free_index' = r.self.idx_to_data_next_free_index
    /\ data' = r.self.data
    /\ data_next_free_index' = r.self.data_next_free_index
    /\ ret' = r.ret
    /\ callers.inside[c] = Outside
    /\ callers' = callers
    /\ UNCHANGED <<allocator, storage, twin, iters, path>>

SerializedInsert(c, value) ==
    /\ Running /\ Serialized
    /\ ApplyFor(c, insert_impl(Self, value))
    /\ call' = Call("insert", -1, value)

SerializedInsertAt(c, key, value) ==
    /\ Running /\ Serialized
    /\ ApplyFor(c, insert_at_impl(Self, key, value))
    /\ call' = Call("insert_at", key, value)

SerializedRemove(c, key) ==
    /\ Running /\ Serialized
    /\ ApplyFor(c, remove_impl(Self, key))
    /\ call' = Call("remove", key, 0)

\* A caller that is back from its call.
Returned == [Outside EXCEPT !.pc = "returned"]

\* Caller c leaves its call with result r.
Leave(c, r) ==
    /\ ret' = r
    /\ callers' = [callers EXCEPT !.inside[c] = Returned]

\* insert_at_impl, 213-217: the range check and the read of the entry.
EnterInsertAt(c, key, value) ==
    /\ Running /\ ~Serialized
    /\ callers.inside[c].pc = "outside"
    /\ call' = Call("insert_at", key, value)
    /\ IF key > capacity_impl(Self) THEN Leave(c, RetBool(FALSE))
       ELSE IF ~VecInBounds(idx_to_data, key) THEN Leave(c, RetPanic)
       ELSE /\ callers' = [callers EXCEPT !.inside[c] =
                              [pc |-> "read", key |-> key, value |-> value,
                               data_idx |-> VecAt(idx_to_data, key),
                               n |-> INVALID_KEY]]
            /\ ret' = ret
    /\ UNCHANGED <<idx_to_data, idx_to_data_next_free_index, data,
                   data_next_free_index, allocator, storage, twin, iters, path>>

\* insert_at_impl, 218-219: the key was bound, its value is overwritten.
OverwriteValue(c) ==
    LET me == callers.inside[c] IN
    /\ Running /\ ~Serialized
    /\ me.pc = "read"
    /\ me.data_idx # INVALID_KEY
    /\ IF ~VecInBounds(data, me.data_idx)
       THEN /\ Leave(c, RetPanic)
            /\ data' = data
       ELSE /\ Leave(c, RetBool(TRUE))
            /\ data' = VecSet(data, me.data_idx, Some(me.value))
    /\ UNCHANGED <<idx_to_data, idx_to_data_next_free_index,
                   data_next_free_index, call, allocator, storage, twin,
                   iters, path>>

\* insert_at_impl, 220-222: the key was free, a value slot is popped.
TakeSlot(c) ==
    LET me == callers.inside[c]
        p == QueuePop(data_next_free_index)
    IN
    /\ Running /\ ~Serialized
    /\ me.pc = "read"
    /\ me.data_idx = INVALID_KEY
    /\ IF p.value = None
       THEN /\ Leave(c, RetPanic)
            /\ data_next_free_index' = data_next_free_index
       ELSE /\ callers' = [callers EXCEPT !.inside[c] =
                              [me EXCEPT !.pc = "popped",
                                         !.n = Unwrap(p.value)]]
            /\ data_next_free_index' = p.queue
            /\ ret' = ret
    /\ UNCHANGED <<idx_to_data, idx_to_data_next_free_index, data, call,
                   allocator, storage, twin, iters, path>>

\* insert_at_impl, 223: the key is bound to the slot.
BindKey(c) ==
    LET me == callers.inside[c] IN
    /\ Running /\ ~Serialized
    /\ me.pc = "popped"
    /\ idx_to_data' = VecSet(idx_to_data, me.key, me.n)
    /\ callers' = [callers EXCEPT !.inside[c] = [me EXCEPT !.pc = "bound"]]
    /\ UNCHANGED <<idx_to_data_next_free_index, data, data_next_free_index,
                   call, ret, allocator, storage, twin, iters, path>>

\* insert_at_impl, 224-226: the value is written into the slot.
WriteValue(c) ==
    LET me == callers.inside[c] IN
    /\ Running /\ ~Serialized
    /\ me.pc = "bound"
    /\ IF ~VecInBounds(data, me.n)
       THEN /\ Leave(c, RetPanic)
            /\ data' = data
       ELSE /\ Leave(c, RetBool(TRUE))
            /\ data' = VecSet(data, me.n, Some(me.value))
    /\ UNCHANGED <<idx_to_data, idx_to_data_next_free_index,
                   data_next_free_index, call, allocator, storage, twin,
                   iters, path>>

ConcurrentNext ==
    \E c \in Callers :
        \/ \E value \in Values : SerializedInsert(c, value)
        \/ \E key \in Keys, value \in Values : SerializedInsertAt(c, key, value)
        \/ \E key \in Keys : SerializedRemove(c, key)
        \/ \E key \in Keys, value \in Values : EnterInsertAt(c, key, value)
        \/ OverwriteValue(c)
        \/ TakeSlot(c)
        \/ BindKey(c)
        \/ WriteValue(c)

SpecConcurrent == ConcurrentInit /\ [][ConcurrentNext]_vars

(***************************************************************************)
(* Path::normalize, is_absolute and entries (path.rs, the build for        *)
(* systems other than Windows).  SpecNormalize is a Path under             *)
(* add_path_entry and normalize.                                           *)
(***************************************************************************)
\* Path::new: the Path of the bytes, when they fit the capacity and are
\* valid content.
PathNew(bytes) ==
    IF Len(bytes) > MaxPathLength
    THEN [value |-> <<>>, ret |-> "ExceedsMaximumLength"]
    ELSE IF invalid_characters(bytes)
    THEN [value |-> <<>>, ret |-> "InvalidContent"]
    ELSE [value |-> bytes, ret |-> "Ok"]

\* The loop of normalize from index i on (i counts from 0, as in the code):
\* raw_path[0..n] at its end.
RECURSIVE NormalizeLoop(_, _, _, _)
NormalizeLoop(value, i, previous_char_is_path_separator, raw_path) ==
    IF i = Len(value) THEN raw_path
    ELSE IF i + 1 = Len(value) /\ value[i + 1] = PATH_SEPARATOR THEN raw_path
    ELSE NormalizeLoop(value, i + 1, value[i + 1] = PATH_SEPARATOR,
                       IF ~(previous_char_is_path_separator
                            /\ value[i + 1] = PATH_SEPARATOR)
                       THEN Append(raw_path, value[i + 1])
                       ELSE raw_path)

\* normalize: the Path of the copied bytes; the expect panics when Path::new
\* refuses them.
normalize(value) ==
    LET r == PathNew(NormalizeLoop(value, 0, FALSE, <<>>)) IN
    IF r.ret = "Ok" THEN r ELSE [value |-> value, ret |-> "panic"]

is_absolute(value) ==
    IF value = <<>> THEN FALSE ELSE value[1] = PATH_SEPARATOR

\* as_bytes().split(|c| *c == PATH_SEPARATOR): the pieces between the
\* separators, from index i on, with the piece begun so far.
RECURSIVE Split(_, _, _)
Split(bytes, i, piece) ==
    IF i > Len(bytes) THEN <<piece>>
    ELSE IF bytes[i] = PATH_SEPARATOR
         THEN <<piece>> \o Split(bytes, i + 1, <<>>)
         ELSE Split(bytes, i + 1, Append(piece, bytes[i]))

IsEntry(piece) == piece # <<>>

entries(value) == SelectSeq(Split(value, 1, <<>>), IsEntry)

\* normalize takes &self and returns a new Path; the Path kept is the
\* returned one, next to the bytes it was made from.
Normalize ==
    /\ path.ret # "panic"
    /\ LET r == normalize(path.value) IN
       path' = [value |-> r.value, entry |-> path.value,
                ret |-> IF r.ret = "Ok" THEN "normalized" ELSE "panic"]
    /\ UNCHANGED <<idx_to_data, idx_to_data_next_free_index, data,
                   data_next_free_index, call, ret, allocator, storage, twin,
                   iters, callers>>

NormalizeNext ==
    \/ \E entry \in ByteStrings(MaxEntryLength) : AddPathEntry(entry)
    \/ Normalize

SpecNormalize == PathInit /\ [][NormalizeNext]_vars

(***************************************************************************)
(* C1: every successful insert returns a key that was not contained        *)
(* immediately before the call, so insert never overwrites a stored value  *)
(* (also not one stored earlier with insert_at).                           *)
(***************************************************************************)
C1_InsertReturnsFreshKey ==
    [][(call'.op = "insert" /\ ret'.tag = "Some") => ~Contained(Self, ret'.val)]_vars

(***************************************************************************)
(* C2: len() is the number of contained keys; is_empty() holds iff no key  *)
(* is contained and is_full() iff every key of the container is.           *)
(***************************************************************************)
C2_LenCountsStoredValues ==
    /\ len_impl(Self) = Cardinality(StoredKeys(Self))
    /\ is_empty_impl(Self) <=> StoredKeys(Self) = {}
    /\ is_full_impl(Self) <=> StoredKeys(Self) = KeyRange(Self)

(***************************************************************************)
(* C3: the free-key queue holds no index twice and holds exactly the keys  *)
(* that are not contained.                                                 *)
(***************************************************************************)
C3_FreeKeysAreTheUnusedKeys ==
    /\ NoDuplicates(idx_to_data_next_free_index.elems)
    /\ FreeKeys(Self) = KeyRange(Self) \ StoredKeys(Self)

(***************************************************************************)
(* C4: every contained key references a value slot that holds a value, no  *)
(* two keys reference the same slot, no referenced slot is in the free-data*)
(* queue, that queue holds no index twice, and every unreferenced slot is  *)
(* empty and in the free-data queue.                                       *)
(***************************************************************************)
C4_ValueSlotsPartition ==
    /\ \A k \in StoredKeys(Self) :
          /\ VecInBounds(data, VecAt(idx_to_data, k))
          /\ VecAt(data, VecAt(idx_to_data, k)) # None
    /\ \A k1, k2 \in StoredKeys(Self) :
          VecAt(idx_to_data, k1) = VecAt(idx_to_data, k2) => k1 = k2
    /\ ReferencedSlots(Self) \cap FreeSlots(Self) = {}
    /\ NoDuplicates(data_next_free_index.elems)
    /\ VecLen(data) = capacity_impl(Self)
    /\ \A s \in KeyRange(Self) \ ReferencedSlots(Self) :
          /\ VecAt(data, s) = None
          /\ s \in FreeSlots(Self)
    /\ ReferencedSlots(Self) \cup FreeSlots(Self) = KeyRange(Self)

\* A removal has left a key that references a slot of another index.
C4_Witness ==
    /\ call.op = "remove"
    /\ ret = RetBool(TRUE)
    /\ \E k \in StoredKeys(Self) : VecAt(idx_to_data, k) # k
    /\ data_next_free_index.elems # <<>>

(***************************************************************************)
(* C5: keys are stable.  For a contained key k, an insert that returns     *)
(* another key, an insert_at on another key and a remove of another key    *)
(* leave k contained and get(k) as it was.                                 *)
(***************************************************************************)
C5_KeysAreStable ==
    [][call'.op \in {"insert", "insert_at", "remove"} =>
          LET \* the key the call is about: the one insert returned (-1: it
              \* returned none), or the argument of insert_at and remove
              target == IF call'.op # "insert" THEN call'.key
                        ELSE IF ret'.tag = "Some" THEN ret'.val ELSE -1
              before == Self
              after == Self'
          IN  \A k \in KeyRange(before) \ {target} :
                 Contained(before, k)
                 => /\ contains_impl(after, k).ret = RetBool(TRUE)
                    /\ get_impl(after, k).ret = get_impl(before, k).ret]_vars

\* A removal of one key has succeeded and the other key is still stored with
\* its value.
C5_Witness ==
    /\ call.op = "remove"
    /\ ret = RetBool(TRUE)
    /\ \E k \in StoredKeys(Self) :
          /\ k # call.key
          /\ get_impl(Self, k).ret.tag = "Some"

(***************************************************************************)
(* C6: round trip.  When insert(v) returns Some(k), k is contained right   *)
(* after the call and get(k) returns v.                                    *)
(***************************************************************************)
C6_InsertRoundTrip ==
    [][(call'.op = "insert" /\ ret'.tag = "Some")
          => /\ contains_impl(Self', ret'.val).ret = RetBool(TRUE)
             /\ get_impl(Self', ret'.val).ret = RetSome(call'.value)]_vars

\* An insert has returned a key while another key holds a different value.
C6_Witness ==
    /\ call.op = "insert"
    /\ ret.tag = "Some"
    /\ get_impl(Self, ret.val).ret = RetSome(call.value)
    /\ \E k \in StoredKeys(Self) :
          /\ k # ret.val
          /\ get_impl(Self, k).ret # RetSome(call.value)

(***************************************************************************)
(* C7: full-container no-op.  Whenever len() == capacity(), insert returns *)
(* None and leaves len(), both vectors and both free queues unchanged.     *)
(***************************************************************************)
C7_InsertIntoFullIsNoOp ==
    [][(call'.op = "insert" /\ len_impl(Self) = capacity_impl(Self))
          => /\ ret' = RetNone
             /\ Self' = Self
             /\ len_impl(Self') = len_impl(Self)]_vars

\* An insert into a full container of capacity two or more has returned None.
C7_Witness ==
    /\ call.op = "insert"
    /\ ret = RetNone
    /\ capacity_impl(Self) >= 2
    /\ is_full_impl(Self)
    /\ StoredKeys(Self) = KeyRange(Self)

(***************************************************************************)
(* C8: out-of-range no-op.  For every key at or above the capacity (the    *)
(* key equal to the capacity included) insert_at returns false, does not   *)
(* panic and leaves the container unchanged.                               *)
(***************************************************************************)
C8_InsertAtOutOfRangeIsNoOp ==
    [][(call'.op = "insert_at" /\ call'.key >= capacity_impl(Self))
          => /\ ret' = RetBool(FALSE)
             /\ Self' = Self]_vars

(***************************************************************************)
(* C9: get, get_mut and contains never panic, whatever the key; for a key  *)
(* that is not contained (a key at or above the capacity included) they    *)
(* return None, None and false and leave the container unchanged.          *)
(***************************************************************************)
C9_LookupOfAbsentKeyIsNoOp ==
    [][call'.op \in {"get", "get_mut", "contains"}
          => /\ ret' # RetPanic
             /\ ~Contained(Self, call'.key)
                   => /\ Self' = Self
                      /\ ret' = IF call'.op = "contains" THEN RetBool(FALSE)
                                ELSE RetNone]_vars

(***************************************************************************)
(* C10: remove of a key that is not contained (in range with an invalid    *)
(* indirection entry, or at or above the capacity) returns false, does not *)
(* panic and leaves both vectors and both free queues unchanged.           *)
(***************************************************************************)
C10_RemoveOfAbsentKeyIsNoOp ==
    [][(call'.op = "remove" /\ ~Contained(Self, call'.key))
          => /\ ret' = RetBool(FALSE)
             /\ Self' = Self]_vars

(***************************************************************************)
(* C11: idempotent removal.  After remove(k) has returned true a second    *)
(* remove(k) returns false, get(k) returns None and contains(k) is false;  *)
(* and this stays so until an insert or insert_at is called: a remove or a *)
(* lookup never makes a key contained.                                     *)
(***************************************************************************)
C11_RemovedKeyIsGone ==
    /\ [](call.op = "remove" /\ ret = RetBool(TRUE) => ~Contained(Self, call.key))
    /\ [](\A k \in KeyRange(Self) :
             ~Contained(Self, k)
             => /\ remove_impl(Self, k).ret = RetBool(FALSE)
                /\ get_impl(Self, k).ret = RetNone
                /\ contains_impl(Self, k).ret = RetBool(FALSE))
    /\ [][call'.op \in {"remove", "get", "get_mut", "contains"}
             => \A k \in KeyRange(Self) :
                   ~Contained(Self, k) => ~Contained(Self', k)]_vars

\* Key 1 has been removed while key 0 is stored.
C11_Witness ==
    /\ call = Call("remove", 1, 0)
    /\ ret = RetBool(TRUE)
    /\ Contained(Self, 0)
    /\ ~Contained(Self, 1)

\* How often x occurs in a sequence.
Occurrences(seq, x) == Cardinality({i \in 1..Len(seq) : seq[i] = x})

(***************************************************************************)
(* C12: a remove(k) that returns true clears the value slot k referenced,  *)
(* resets the indirection entry of k to INVALID_KEY and returns both       *)
(* indices: right after it k occurs exactly once in the free-key queue and *)
(* the freed slot exactly once in the free-data queue.                     *)
(***************************************************************************)
C12_RemoveReturnsBothIndices ==
    [][(call'.op = "remove" /\ ret' = RetBool(TRUE))
         => LET key == call'.key
                data_idx == VecAt(idx_to_data, key)
            IN  /\ VecAt(data', data_idx) = None
                /\ VecAt(idx_to_data', key) = INVALID_KEY
                /\ Occurrences(idx_to_data_next_free_index'.elems, key) = 1
                /\ Occurrences(data_next_free_index'.elems, data_idx) = 1]_vars

(***************************************************************************)
(* C13: insert_at(k, v) on a key that is already contained returns true    *)
(* and overwrites the value in the slot k references, so get(k) == v; the  *)
(* indirection vector, both free queues, len() and every other value slot  *)
(* stay as they were.                                                      *)
(***************************************************************************)
C13_InsertAtOverwritesInPlace ==
    [][(call'.op = "insert_at" /\ Contained(Self, call'.key))
         => LET key == call'.key
                data_idx == VecAt(idx_to_data, key)
            IN  /\ ret' = RetBool(TRUE)
                /\ get_impl(Self', key).ret = RetSome(call'.value)
                /\ data' = VecSet(data, data_idx, Some(call'.value))
                /\ idx_to_data' = idx_to_data
                /\ idx_to_data_next_free_index' = idx_to_data_next_free_index
                /\ data_next_free_index' = data_next_free_index
                /\ len_impl(Self') = len_impl(Self)
                /\ \A k \in KeyRange(Self) \ {key} :
                      get_impl(Self', k).ret = get_impl(Self, k).ret]_vars

\* With capacity 1 the free-key queue is empty only while key 0 is stored
\* through insert, so this insert_at(0, 2) met a contained key.
C13_Witness ==
    /\ capacity_impl(Self) = 1
    /\ call = Call("insert_at", 0, 2)
    /\ ret = RetBool(TRUE)
    /\ QueueLen(idx_to_data_next_free_index) = 0
    /\ get_impl(Self, 0).ret = RetSome(2)

(***************************************************************************)
(* C14: iter() terminates and yields every contained key exactly once, in  *)
(* strictly ascending key order, each with the value get returns for it,   *)
(* and yields no key that is not contained.                                *)
(***************************************************************************)
C14_IterYieldsContainedKeysAscending ==
    LET r == Iterate(Self)
        n == Len(r.items)
    IN  /\ r.end = "returned"
        /\ \A i \in 1..n : \A j \in 1..n : i < j => r.items[i].key < r.items[j].key
        /\ {r.items[i].key : i \in 1..n} = StoredKeys(Self)
        /\ \A i \in 1..n :
              get_impl(Self, r.items[i].key).ret = RetSome(r.items[i].value)

\* Two keys are stored with different values and the iteration yields both.
C14_Witness ==
    LET r == Iterate(Self) IN
    /\ Len(r.items) = 2
    /\ r.items[1].value # r.items[2].value

\* The container after consecutive insert calls, one per value of vs, on a
\* fresh container of the given capacity.
RECURSIVE Filled(_, _)
Filled(capacity, vs) ==
    IF vs = <<>> THEN new(capacity)
    ELSE insert_impl(Filled(capacity, SubSeq(vs, 1, Len(vs) - 1)), vs[Len(vs)]).self

\* The sequences of n values.
ValueSeqs(n) == [1..n -> Values]

\* Every container that n consecutive inserts on a fresh container give.
FreshlyFilled ==
    UNION {UNION {{[self |-> Filled(N, vs), inserts |-> n] : vs \in ValueSeqs(n)}
                  : n \in 0..N}
           : N \in 1..MaxCapacity}

\* Every container that remove(key) gives on a container that was filled
\* by consecutive inserts on a fresh one.
RemovedFromFull ==
    UNION {UNION {{[self |-> remove_impl(Filled(N, vs), key).self, key |-> key]
                   : vs \in ValueSeqs(N)}
                  : key \in 0..(N - 1)}
           : N \in 1..MaxCapacity}

(***************************************************************************)
(* C15: keys are handed out first in, first out.  On a fresh container of  *)
(* capacity N the n-th of N consecutive inserts returns key n-1 and the    *)
(* insert after them returns None; from that full container remove(k)      *)
(* followed by insert(v) returns the recycled key k, and get(k) == v.      *)
(***************************************************************************)
C15_KeysAreHandedOutFifo ==
    [][call'.op = "insert"
         => LET N == capacity_impl(Self) IN
            /\ \A n \in 0..N :
                  [self |-> Self, inserts |-> n] \in FreshlyFilled
                  => ret' = (IF n < N THEN RetSome(n) ELSE RetNone)
            /\ (/\ call.op = "remove"
                /\ ret = RetBool(TRUE)
                /\ [self |-> Self, key |-> call.key] \in RemovedFromFull)
               => /\ ret' = RetSome(call.key)
                  /\ get_impl(Self', call.key).ret = RetSome(call'.value)]_vars

\* Capacity 2: the container is full and the last insert returned key 0,
\* which the two inserts that fill a fresh container never do last.
C15_Witness ==
    /\ capacity_impl(Self) = 2
    /\ call.op = "insert"
    /\ ret = RetSome(0)
    /\ is_full_impl(Self)
    /\ StoredKeys(Self) = {0, 1}

\* The sequence 0, 1, .., n-1.
Ascending(n) == [i \in 1..n |-> i - 1]

(***************************************************************************)
(* C16: after a successful init of the relocatable container and after     *)
(* SlotMap::new of the heap container every indirection entry is           *)
(* INVALID_KEY, every value slot is empty, both free queues hold           *)
(* 0..capacity in ascending order, len() is 0, is_empty() is true and the  *)
(* invariants of the data model (C2, C3, C4) hold.                         *)
(***************************************************************************)
C16_ConstructedContainerIsEmpty ==
    (call.op = "new" \/ (call.op = "init" /\ ret = RetOk))
    => LET N == capacity_impl(Self) IN
       /\ idx_to_data.elems = [i \in 1..N |-> INVALID_KEY]
       /\ data.elems = [i \in 1..N |-> None]
       /\ idx_to_data_next_free_index.elems = Ascending(N)
       /\ data_next_free_index.elems = Ascending(N)
       /\ len_impl(Self) = 0
       /\ is_empty_impl(Self)
       /\ C2_LenCountsStoredValues
       /\ C3_FreeKeysAreTheUnusedKeys
       /\ C4_ValueSlotsPartition

\* init has succeeded on a skeleton of capacity 2.
C16_Witness ==
    /\ call.op = "init"
    /\ ret = RetOk
    /\ capacity_impl(Self) = 2
    /\ data_next_free_index.elems = <<0, 1>>

\* The bytes of the first n requests.
RECURSIVE RequestedBytes(_, _)
RequestedBytes(requests, n) ==
    IF n = 0 THEN 0 ELSE RequestedBytes(requests, n - 1) + requests[n].bytes

C18_MemorySizeIsExact ==
    call.op = "init"
    => LET N == capacity_impl(Self) IN
       /\ allocator.size = memory_size(N) => ret = RetOk
       /\ allocator.size = memory_size(N) - 1 => ret.tag = "Err"
       /\ ret = RetOk
          => memory_size(N) = RequestedBytes(allocator.requests, Len(Fields))
       /\ memory_size(N) =
             FieldMemorySize(Fields[1], N) + FieldMemorySize(Fields[2], N)
             + FieldMemorySize(Fields[3], N) + FieldMemorySize(Fields[4], N)

\* init was refused the last byte of the free-data queue.
C18_Witness ==
    /\ call.op = "init"
    /\ allocator.size = memory_size(capacity_impl(Self)) - 1
    /\ ret = RetErr(4)

\* Two byte ranges share no byte.
Disjoint(r, s) == RangeEnd(r) <= s.start \/ RangeEnd(s) <= r.start

(***************************************************************************)
(* C19: both constructors of FixedSizeSlotMap seed the bump allocator at   *)
(* the start of the embedded storage, so the four byte ranges init hands   *)
(* out lie inside the embedded arrays and do not overlap, and both         *)
(* constructors give the same layout.                                      *)
(***************************************************************************)
C19_FixedSizeLayoutIsEmbedded ==
    call.op \in {"default", "placement_default"}
    => LET N == capacity_impl(Self) IN
       /\ allocator.start = EmbeddedStorage(N).start
       /\ \A f \in Range(Fields) : InStorage(Self[f].data_ptr)
       /\ \A f, g \in Range(Fields) :
             f # g => Disjoint(Self[f].data_ptr, Self[g].data_ptr)
       /\ \A f \in Range(Fields) :
             /\ Self[f].data_ptr = default(N).self[f].data_ptr
             /\ Self[f].data_ptr = placement_default(N).self[f].data_ptr

(***************************************************************************)
(* C20: the heap container, the relocatable container after init and       *)
(* FixedSizeSlotMap of the same capacity behave alike: given the same      *)
(* insert, insert_at and remove calls each returns what the heap container *)
(* returns, and get, contains, len, is_empty, is_full and iter answer the  *)
(* same on both at every step.                                             *)
(***************************************************************************)
C20_VariantsBehaveAlike ==
    /\ call.op \in {"insert", "insert_at", "remove"} => ret = twin.ret
    /\ BothRunning
       => /\ \A key \in KeyRange(Self) :
                /\ get_impl(Self, key).ret = get_impl(twin.self, key).ret
                /\ contains_impl(Self, key).ret = contains_impl(twin.self, key).ret
          /\ len_impl(Self) = len_impl(twin.self)
          /\ is_empty_impl(Self) = is_empty_impl(twin.self)
          /\ is_full_impl(Self) = is_full_impl(twin.self)
          /\ Iterate(Self) = Iterate(twin.self)

(***************************************************************************)
(* C21: in every reachable state len() plus the number of entries of the   *)
(* free-key queue is capacity(), and len() lies in 0..capacity().          *)
(***************************************************************************)
C21_LenPlusFreeKeysIsCapacity ==
    /\ len_impl(Self) + QueueLen(idx_to_data_next_free_index) = capacity_impl(Self)
    /\ len_impl(Self) >= 0
    /\ len_impl(Self) <= capacity_impl(Self)

\* Capacity 2 after a successful remove, with one key handed out.
C21_Witness ==
    /\ capacity_impl(Self) = 2
    /\ call.op = "remove"
    /\ ret = RetBool(TRUE)
    /\ len_impl(Self) = 1
    /\ QueueLen(idx_to_data_next_free_index) = 1

\* The lengths capacity() and the two arrays have.
Dimensions(m) == <<capacity_impl(m), VecLen(m.idx_to_data), VecLen(m.data)>>

(***************************************************************************)
(* C22: capacity() is immutable.  No insert, insert_at, remove, get,       *)
(* get_mut, contains or iter call and no step of an iterator, whether it   *)
(* succeeds or fails, changes capacity() or the length of the indirection  *)
(* vector and of the value vector.                                         *)
(***************************************************************************)
C22_CapacityIsImmutable ==
    /\ [][Dimensions(Self') = Dimensions(Self)]_vars
    /\ [](\A key \in Keys :
             /\ Dimensions(get_impl(Self, key).self) = Dimensions(Self)
             /\ Dimensions(get_mut_impl(Self, key).self) = Dimensions(Self)
             /\ Dimensions(contains_impl(Self, key).self) = Dimensions(Self))
    /\ [](Dimensions(Self) = <<capacity_impl(Self), capacity_impl(Self),
                               capacity_impl(Self)>>)

\* Capacity 2 with key 1 alone stored, and an iterator that has run out.
C22_Witness ==
    /\ Dimensions(Self) = <<2, 2, 2>>
    /\ StoredKeys(Self) = {1}
    /\ Len(iters) = 1
    /\ iters[1].done

(***************************************************************************)
(* C23: get, contains and iteration leave the indirection vector, the      *)
(* value vector and both free queues as they are (len, capacity, is_empty  *)
(* and is_full return numbers and flags only).  Every iter() starts at key *)
(* 0, advancing one iterator does not move another, and two iterators over *)
(* the same container that have run out have yielded the same sequence.    *)
(***************************************************************************)
C23_ReadsChangeNothing ==
    /\ [][iters' # iters
          => /\ Self' = Self
             /\ Len(iters') > Len(iters)
                => /\ SubSeq(iters', 1, Len(iters)) = iters
                   /\ iters'[Len(iters')].key = 0
                   /\ iters'[Len(iters')].yielded = <<>>
             /\ Len(iters') = Len(iters)
                => Cardinality({i \in 1..Len(iters) : iters'[i] # iters[i]}) = 1]_vars
    /\ [](\A key \in KeyRange(Self) :
             /\ get_impl(Self, key).self = Self
             /\ contains_impl(Self, key).self = Self)
    /\ [](\A i, j \in 1..Len(iters) :
             iters[i].done /\ iters[j].done => iters[i].yielded = iters[j].yielded)

\* Two iterators have run out over a container with two stored keys.
C23_Witness ==
    /\ Len(iters) = 2
    /\ iters[1].done
    /\ iters[2].done
    /\ Len(iters[1].yielded) = 2

(***************************************************************************)
(* C26: a successful add_path_entry(entry) leaves old path, then one       *)
(* separator iff the old path was not empty and did not end with a         *)
(* separator, then the bytes of the entry.                                 *)
(***************************************************************************)
C26_AddPathEntrySeparatesOnce ==
    [][path'.ret = "Ok"
         => LET old == path.value
                separator == IF old # <<>> /\ old[Len(old)] # PATH_SEPARATOR
                             THEN <<PATH_SEPARATOR>>
                             ELSE <<>>
            IN  path'.value = old \o separator \o path'.entry]_vars

\* "a" has got the entry "a" and is "a/a".
C26_Witness ==
    /\ path.ret = "Ok"
    /\ path.entry = <<97>>
    /\ path.value = <<97, PATH_SEPARATOR, 97>>

(***************************************************************************)
(* C30: when add_path_entry returns an error the path is as it was before  *)
(* the call; in particular no separator has been appended.                 *)
(***************************************************************************)
C30_FailedAddPathEntryChangesNothing ==
    [][path'.ret # "Ok" => path'.value = path.value]_vars

(***************************************************************************)
(* C27: in every state reached by insert, insert_at and remove, insert_at  *)
(* of a key below the capacity that is not contained finds a free value    *)
(* slot (its pop is not None, so its expect does not fire), and the        *)
(* expectations of get, get_mut and iteration that a referenced slot holds *)
(* a value do not fire.                                                    *)
(***************************************************************************)
C27_ExpectationsNeverFire ==
    /\ \A key \in KeyRange(Self) :
          IF contains_impl(Self, key).ret = RetBool(FALSE)
          THEN /\ QueuePop(data_next_free_index).value # None
               /\ \A value \in Values :
                     insert_at_impl(Self, key, value).ret = RetBool(TRUE)
          ELSE /\ get_impl(Self, key).ret.tag = "Some"
               /\ get_mut_impl(Self, key).ret.tag = "Some"
    /\ Iterate(Self).end = "returned"

\* insert_at has bound a key that was not contained to the last free slot.
C27_Witness ==
    /\ call.op = "insert_at"
    /\ ret = RetBool(TRUE)
    /\ StoredKeys(Self) = {0, 1}
    /\ QueueLen(data_next_free_index) = 0
    /\ idx_to_data.elems = <<1, 0>>

(***************************************************************************)
(* C28: insert returns None only when the container is full: as long as    *)
(* some key below the capacity is not contained, insert(value) returns     *)
(* Some, and every key that is not contained is in the free-key queue.     *)
(***************************************************************************)
C28_InsertFailsOnlyWhenFull ==
    \A key \in KeyRange(Self) :
        ~Contained(Self, key)
            => /\ key \in FreeKeys(Self)
               /\ \A value \in Values : insert_impl(Self, value).ret.tag = "Some"

\* The keys of m that reference the value slot.
KeysOfSlot(m, slot) == {k \in StoredKeys(m) : VecAt(m.idx_to_data, k) = slot}

(***************************************************************************)
(* C29: when the calls of several callers are serialized, every order of   *)
(* their calls keeps the invariants of the value slots: a slot holds a     *)
(* value iff exactly one key references it, no slot is referenced twice,   *)
(* and the free-data queue holds each unreferenced slot once and no other. *)
(* (Unsynchronized insert_at calls on one key break them: C29_Witness.)    *)
(***************************************************************************)
C29_SerializedCallsKeepValueSlots ==
    Serialized =>
        /\ \A slot \in KeyRange(Self) :
              /\ Cardinality(KeysOfSlot(Self, slot)) <= 1
              /\ VecAt(data, slot) # None <=> KeysOfSlot(Self, slot) # {}
              /\ slot \in FreeSlots(Self) <=> KeysOfSlot(Self, slot) = {}
        /\ \A k \in StoredKeys(Self) : VecAt(idx_to_data, k) \in KeyRange(Self)
        /\ NoDuplicates(data_next_free_index.elems)
        /\ FreeSlots(Self) \subseteq KeyRange(Self)

\* Two unsynchronized callers have both finished insert_at on the same key,
\* and a slot holds a value that no key references and no queue holds.
C29_Witness ==
    /\ ~Serialized
    /\ \A c \in Callers : callers.inside[c].pc = "returned"
    /\ ret = RetBool(TRUE)
    /\ \E slot \in KeyRange(Self) :
          /\ VecAt(data, slot) # None
          /\ KeysOfSlot(Self, slot) = {}
          /\ slot \notin FreeSlots(Self)

\* No two neighbouring bytes are both the separator.
NoConsecutiveSeparators(value) ==
    \A i \in 1..(Len(value) - 1) :
        ~(value[i] = PATH_SEPARATOR /\ value[i + 1] = PATH_SEPARATOR)

EndsWithSeparator(value) ==
    value # <<>> /\ value[Len(value)] = PATH_SEPARATOR

(***************************************************************************)
(* C31: normalize of a valid path returns a valid path without two         *)
(* consecutive separators and without a separator at its end, with the     *)
(* same is_absolute() and the same entries(), and normalizing the result   *)
(* again returns the result.                                               *)
(***************************************************************************)
C31_NormalizeIsCanonical ==
    [][path'.entry = path.value /\ path'.ret \in {"normalized", "panic"}
         => LET p == path.value
                q == path'.value
            IN  /\ path'.ret = "normalized"
                /\ PathNew(q).ret = "Ok"
                /\ NoConsecutiveSeparators(q)
                /\ ~EndsWithSeparator(q)
                /\ is_absolute(q) = is_absolute(p)
                /\ entries(q) = entries(p)
                /\ normalize(q).value = q]_vars

====
